---- MODULE Spec2Model ----
(***************************************************************************)
(* A model of svelte-form-validation's form engine (createForm and the     *)
(* helpers it calls): the values store, the state (metadata) store, the    *)
(* isValid and isTouched stores, and the operations the library returns.   *)
(*                                                                         *)
(* JavaScript objects are modelled as trees.  A node is a record           *)
(*    k     the runtime kind: "obj" (plain object), "arr" (array),         *)
(*          "prim" (a primitive or a function), "undef" (undefined)        *)
(*    t     the own property _touched: "T", "F", or "u" when not set       *)
(*    eDef  whether the own property _errors is set                        *)
(*    e     the _errors list (messages, in push order)                     *)
(*    v     the payload of a data node, read by the validation schema      *)
(*    kids  the other own enumerable properties, keyed by property name;   *)
(*          an array's elements are keyed "0", "1", ... as in JavaScript   *)
(* Data trees and metadata trees share the representation.                 *)
(***************************************************************************)
EXTENDS Naturals, Sequences, FiniteSets, TLC

\* Largest number of entries the users form array holds in a checked run.
MaxUsers == 2

\* The same, for the form whose schema has an object-level test on entries.
MaxTested == 1

Node(k, t, eDef, e, v, kids) ==
    [k |-> k, t |-> t, eDef |-> eDef, e |-> e, v |-> v, kids |-> kids]

Undefined == Node("undef", "u", FALSE, <<>>, "", <<>>)

\* {} : an object with no property.
EmptyObject == Node("obj", "u", FALSE, <<>>, "", <<>>)

\* A primitive value or a function (typeof is neither 'object' nor array).
Prim(v) == Node("prim", "u", FALSE, <<>>, v, <<>>)

\* obj[key] : undefined when obj is no object or has no such property.
Get(obj, key) ==
    IF obj.k \in {"obj", "arr"} /\ key \in DOMAIN obj.kids
    THEN obj.kids[key]
    ELSE Undefined

\* !x is false: objects and arrays are truthy; of the primitives the model
\* holds, the boolean false is the only falsy one.
Truthy(x) == x.k \in {"obj", "arr"} \/ (x.k = "prim" /\ x.v # "false")

\* Array indices as property names.
IdxStr == <<"0", "1", "2", "3", "4", "5">>

IdxKeys(n) == {IdxStr[i] : i \in 1..n}

\* The positions (from 1) of an array node's elements.  An array written
\* past its end has holes: positions below its length with no element.
Present(arr) == {i \in 1..Len(IdxStr) : IdxStr[i] \in DOMAIN arr.kids}

\* arr.length: one more than the largest index.
Length(arr) ==
    IF Present(arr) = {} THEN 0
    ELSE CHOOSE n \in Present(arr) : \A i \in Present(arr) : i <= n

\* null
Null == Node("null", "u", FALSE, <<>>, "", <<>>)

Obj(v, kids) == Node("obj", "u", FALSE, <<>>, v, kids)

Arr(elems) ==
    Node("arr", "u", FALSE, <<>>, "",
         [key \in IdxKeys(Len(elems)) |->
             elems[CHOOSE i \in 1..Len(elems) : IdxStr[i] = key]])

----------------------------------------------------------------------------
(* Field paths.  A path string is modelled as its sequence of lexical      *)
(* tokens: the delimiter characters ".", "[" and "]", and the maximal runs *)
(* of other characters between them.                                       *)

Delimiters == {".", "[", "]"}

\* name.toString().match(/[^.[\]]+/g) || []
Segments(path) == SelectSeq(path, LAMBDA tok : tok \notin Delimiters)

\* The path as one string: its tokens joined.
RECURSIVE PathString(_)
PathString(path) ==
    IF path = <<>> THEN "" ELSE Head(path) \o PathString(Tail(path))

\* The path string the validation library reports for a list of segments
\* (property access with ".", array index with "[i]").
RECURSIVE FormatPath(_)
FormatPath(segs) ==
    IF segs = <<>> THEN <<>>
    ELSE LET last == segs[Len(segs)]
             front == SubSeq(segs, 1, Len(segs) - 1)
         IN IF last \in IdxKeys(Len(IdxStr))
            THEN FormatPath(front) \o <<"[", last, "]">>
            ELSE IF front = <<>> THEN <<last>>
                 ELSE FormatPath(front) \o <<".", last>>

----------------------------------------------------------------------------
(* The validation schema (yup), as the engine reads it: every schema node   *)
(* has a type; an object schema has fields; an array schema has an         *)
(* innerType whose fields are kept here under the array node itself.       *)
(* keys lists the fields in declaration order; tests tells whether the     *)
(* object schema (for an array, its innerType) has a test of its own.      *)

SNode(type, keys, fields, tests) ==
    [type |-> type, keys |-> keys, fields |-> fields, tests |-> tests]

StringSchema == SNode("string", <<>>, <<>>, FALSE)

\* createForm called without validationSchema.
NoSchema == SNode("none", <<>>, <<>>, FALSE)

\* users: array().of(object().shape({ name: string().required() }))
UsersSchema(tests) == SNode("array", <<"name">>, [key \in {"name"} |-> StringSchema], tests)

\* { users, title }: a form array and, declared after it, an optional scalar.
UsersAndTitle(tests) ==
    SNode("object", <<"users", "title">>,
          [key \in {"users", "title"} |->
              IF key = "users" THEN UsersSchema(tests) ELSE StringSchema], FALSE)

\* The list form's schema.
ListSchema == UsersAndTitle(FALSE)

\* The same with an object-level test on each entry:
\* users: array().of(object().shape({ name }).test(...))
TestedSchema == UsersAndTitle(TRUE)

\* address: object().shape({ city: string() })
AddressSchema ==
    SNode("object", <<"city">>, [key \in {"city"} |-> StringSchema], FALSE)

\* A form with a nested object.
NestedSchema ==
    SNode("object", <<"address">>, [key \in {"address"} |-> AddressSchema], FALSE)

\* The configurations createForm is checked with.
Schemas == {ListSchema, TestedSchema, NestedSchema, NoSchema}

Range(seq) == {seq[i] : i \in 1..Len(seq)}

RECURSIVE Concat(_)
Concat(seqs) ==
    IF seqs = <<>> THEN <<>> ELSE Head(seqs) \o Concat(Tail(seqs))

(* schema.validateSync(data, { abortEarly: false }): the violations of the  *)
(* whole data tree, in schema declaration order, each {path, message}.     *)
(* A scalar whose payload is "bad" violates its field's rules; an object   *)
(* whose own payload is "bad" violates the object-level test, if the       *)
(* schema has one.  An absent (optional) field violates nothing.           *)
RECURSIVE Violations(_, _, _)
Violations(data, schema, segs) ==
    LET own == IF /\ data.v = "bad"
                  /\ \/ data.k = "prim"
                     \/ data.k = "obj" /\ schema.tests
               THEN <<[path |-> FormatPath(segs),
                       message |-> IF data.k = "obj" THEN "invalidObject"
                                                     ELSE "invalid"]>>
               ELSE <<>>
    IN CASE schema.type = "object" ->
              own \o Concat([i \in 1..Len(schema.keys) |->
                        Violations(Get(data, schema.keys[i]),
                                   schema.fields[schema.keys[i]],
                                   Append(segs, schema.keys[i]))])
         [] schema.type = "array" ->
              Concat([i \in 1..Length(data) |->
                        Violations(Get(data, IdxStr[i]),
                                   SNode("object", schema.keys, schema.fields, schema.tests),
                                   Append(segs, IdxStr[i]))])
         [] OTHER -> own

----------------------------------------------------------------------------
(* Building the metadata tree.                                             *)

\* An exception propagating out of a helper.
Throw == Node("throw", "u", FALSE, <<>>, "", <<>>)

Throws(x) == x.k = "throw"

AnyThrows(kids) == \E key \in DOMAIN kids : Throws(kids[key])

\* isNullish(value)
isNullish(value) == value.k = "undef"

\* isEmpty(object), applied to a schema node's fields
isEmpty(schema) == schema.keys = <<>>

\* Object.assign({}, x): a shallow copy of x's own enumerable properties
\* into a fresh plain object (none when x is undefined or a primitive).
ObjectAssign(x) ==
    IF x.k \in {"obj", "arr"} THEN [x EXCEPT !.k = "obj"] ELSE EmptyObject

\* A leaf builder that starts every leaf untouched, whatever the previous
\* metadata holds.
NewLeafFresh(old) == Node("obj", "F", TRUE, <<>>, "", <<>>)

\* { _touched: state?.[key]?._touched || false, _errors: [] }
NewLeaf(old) ==
    Node("obj", IF old.t = "T" THEN "T" ELSE "F", TRUE, <<>>, "", <<>>)

\* JSON.parse(JSON.stringify(state)): a deep copy that keeps an array's
\* elements only (an array's own _touched and _errors are not serialised)
\* and has null where the array has a hole.
RECURSIVE JsonClone(_)
JsonClone(x) ==
    CASE x.k = "obj" -> [x EXCEPT !.kids = [key \in DOMAIN x.kids |-> JsonClone(x.kids[key])]]
      [] x.k = "arr" -> Node("arr", "u", FALSE, <<>>, "",
                             [key \in IdxKeys(Length(x)) |->
                                 IF key \in DOMAIN x.kids THEN JsonClone(x.kids[key])
                                 ELSE Null])
      [] OTHER -> x

\* state with state[key] = built[key] assigned for every key of built
\* (other properties of state are left as they are).
Assign(state, built) ==
    LET kids == [key \in DOMAIN state.kids \cup DOMAIN built |->
                    IF key \in DOMAIN built THEN built[key] ELSE state.kids[key]]
    IN IF AnyThrows(kids) THEN Throw ELSE [state EXCEPT !.kids = kids]

RECURSIVE createValidatedState(_, _, _)
createValidatedState(data, schema, state) ==
    LET built(key) ==
          LET field == schema.fields[key]
              old == Get(state, key)
          IN CASE field.type = "array" ->
                    \* (data?.[key] || []).map(...); state[key]._errors = []
                    LET values == IF Truthy(Get(data, key)) THEN Get(data, key)
                                  ELSE Arr(<<>>)
                        elems == [idx \in IdxKeys(Length(values)) |->
                                    createValidatedState(Get(values, idx), field,
                                        ObjectAssign(Get(old, idx)))]
                    IN IF AnyThrows(elems) THEN Throw
                       ELSE Node("arr", "u", TRUE, <<>>, "", elems)
               [] field.type = "object" /\ ~isEmpty(field) ->
                    \* data[key] throws a TypeError when data is undefined
                    IF isNullish(data) THEN Throw
                    ELSE LET inner == createValidatedState(Get(data, key), field,
                                          ObjectAssign(old))
                         IN IF Throws(inner) THEN Throw
                            ELSE [inner EXCEPT !.eDef = TRUE, !.e = <<>>]
               [] OTHER -> NewLeaf(old)
    IN Assign(state, [key \in Range(schema.keys) |-> built(key)])

RECURSIVE createRawState(_, _)
createRawState(data, state) ==
    LET built(key) ==
          LET value == Get(data, key)
              old == Get(state, key)
          IN CASE value.k = "arr" ->
                    LET elems == [idx \in IdxKeys(Length(value)) |->
                                    createRawState(Get(value, idx),
                                        ObjectAssign(Get(old, idx)))]
                    IN Node("arr", "u", TRUE, <<>>, "", elems)
               [] value.k = "obj" ->
                    LET inner == createRawState(value, ObjectAssign(old))
                    IN [inner EXCEPT !.eDef = TRUE, !.e = <<>>]
               [] OTHER -> NewLeaf(old)
    IN Assign(state, [key \in (IF data.k \in {"obj", "arr"} THEN DOMAIN data.kids ELSE {}) |->
                         built(key)])

\* createState's choice of builder, for the data and seed it is given.
BuildState(data, schema, seed) ==
    IF schema.type # "none"
    THEN createValidatedState(data, schema, seed)
    ELSE createRawState(data, seed)

----------------------------------------------------------------------------
(* The validation pass.                                                    *)

Bool(b) == IF b THEN "T" ELSE "F"

\* A touch policy that forgets the flag a node has.
TouchPolicyForget(touched, touch) == Bool(touch)

\* typeof x._touched === 'boolean' && !touch ? x._touched : touch
TouchPolicy(touched, touch) ==
    IF touched \in {"T", "F"} /\ ~touch THEN touched ELSE Bool(touch)

(* clearErrors(data, touch, true, update): every property of data other    *)
(* than _touched and _errors is replaced: an array by the map of its       *)
(* elements through clearErrors, an object by a copy of itself, a          *)
(* primitive by a fresh leaf; each gets _errors = [] and _touched by the   *)
(* touch policy (a mapped array is a new array, with no _touched of its    *)
(* own).  data's own _touched and _errors are not written.                 *)
RECURSIVE clearErrors(_, _)
clearErrors(data, touch) ==
    IF data.k \notin {"obj", "arr"} THEN data
    ELSE [data EXCEPT !.kids = [key \in DOMAIN data.kids |->
            LET value == data.kids[key]
            IN CASE value.k = "arr" ->
                      [value EXCEPT
                          !.kids = [idx \in DOMAIN value.kids |->
                                       clearErrors(value.kids[idx], touch)],
                          !.t = TouchPolicy("u", touch),
                          !.eDef = TRUE, !.e = <<>>]
                 [] value.k = "obj" ->
                      [clearErrors(value, touch) EXCEPT
                          !.t = TouchPolicy(value.t, touch),
                          !.eDef = TRUE, !.e = <<>>]
                 [] OTHER ->
                      Node("obj", TouchPolicy("u", touch), TRUE, <<>>, "", <<>>)]]

\* The walk over objSegments: whether every one of them names a truthy
\* property, starting at obj.
RECURSIVE Exists(_, _)
Exists(obj, objSegments) ==
    IF objSegments = <<>> THEN TRUE
    ELSE /\ Truthy(Get(obj, Head(objSegments)))
         /\ Exists(Get(obj, Head(objSegments)), Tail(objSegments))

\* The node the walk ends at.
RECURSIVE Walk(_, _)
Walk(obj, objSegments) ==
    IF objSegments = <<>> THEN obj
    ELSE Walk(Get(obj, Head(objSegments)), Tail(objSegments))

\* root, with the node at the end of segments replaced by value (every
\* segment but the last names an existing object or array).
RECURSIVE Put(_, _, _)
Put(root, segments, value) ==
    IF segments = <<>> THEN value
    ELSE LET key == Head(segments)
         IN [root EXCEPT !.kids =
                [k \in DOMAIN root.kids \cup {key} |->
                    IF k = key THEN Put(Get(root, key), Tail(segments), value)
                    ELSE root.kids[k]]]

Front(seq) == SubSeq(seq, 1, Len(seq) - 1)

\* segments[segments.length - 1]: the property name "undefined" when there
\* is no segment.
LastSegment(segments) ==
    IF segments = <<>> THEN "undefined" ELSE segments[Len(segments)]

\* Lines 387-391 of setErrors for one violation whose parent object exists:
\* create the node when it is falsy, push the message, apply the touch
\* policy for invalid fields.
PushError(root, segments, message, touchInvalid) ==
    LET objSegments == IF segments = <<>> THEN <<>> ELSE Front(segments)
        lastSegment == LastSegment(segments)
        found == Get(Walk(root, objSegments), lastSegment)
        node == IF Truthy(found) THEN found
                ELSE \* { touched: false, _errors: [] }
                     Node("obj", "u", TRUE, <<>>, "",
                          [key \in {"touched"} |-> Prim("false")])
        errors == IF node.eDef THEN node.e ELSE <<>>
    IN Put(root, Append(objSegments, lastSegment),
           [node EXCEPT !.eDef = TRUE,
                        !.e = Append(errors, message),
                        !.t = TouchPolicy(node.t, touchInvalid)])

\* What the loop of setErrors does on finding that a violation's parent
\* object does not exist: "break" (the remaining violations are not applied).
OnMissingParent(state, rest, touchInvalid) == state

\* The loop of setErrors over mainError.inner, from the cleared state.
RECURSIVE ApplyErrors(_, _, _)
ApplyErrors(state, inner, touchInvalid) ==
    IF inner = <<>> THEN state
    ELSE LET error == Head(inner)
             segments == Segments(error.path)
         IN IF Len(segments) > 1 /\ ~Exists(state, Front(segments))
            THEN OnMissingParent(state, Tail(inner), touchInvalid)
            ELSE ApplyErrors(PushError(state, segments, error.message, touchInvalid),
                             Tail(inner), touchInvalid)

(* setErrors(state, mainError, touchValid, touchInvalid).  The state held  *)
(* by the store is cleared and written in place, so what the loop has done *)
(* when an exception ends it stays done.  hasInner is false for an error   *)
(* that is no yup ValidationError (mainError.inner is undefined and the    *)
(* for-of throws before the first violation).                              *)
setErrors(state, hasInner, inner, touchValid, touchInvalid) ==
    LET cleared == clearErrors(state, touchValid)
    IN IF hasInner THEN ApplyErrors(cleared, inner, touchInvalid) ELSE cleared

\* A validate for which a missing schema accepts every data tree.
ValidateResultLenient(data, schema) ==
    schema.type = "none" \/ Violations(data, schema, <<>>) = <<>>

\* validate(form, schema, state, touchValid, touchInvalid): the value it
\* returns.  Without a schema, schema.validateSync throws a TypeError.
ValidateResult(data, schema) ==
    schema.type # "none" /\ Violations(data, schema, <<>>) = <<>>

\* A validate whose success path leaves the metadata as it is.
ValidateStateKeep(data, schema, state, touchValid, touchInvalid) ==
    IF schema.type # "none" /\ Violations(data, schema, <<>>) = <<>>
    THEN state
    ELSE setErrors(state, schema.type # "none", Violations(data, schema, <<>>),
                   touchValid, touchInvalid)

\* validate(...): the state it leaves in the store.
ValidateState(data, schema, state, touchValid, touchInvalid) ==
    IF schema.type = "none"
    THEN setErrors(state, FALSE, <<>>, touchValid, touchInvalid)
    ELSE IF Violations(data, schema, <<>>) = <<>>
         THEN clearErrors(state, touchValid)
         ELSE setErrors(state, TRUE, Violations(data, schema, <<>>),
                        touchValid, touchInvalid)

\* An updateFieldTouched that does not look whether the last segment names
\* a node.
updateFieldTouchedAny(name, state) ==
    LET segments == Segments(name)
        objSegments == IF segments = <<>> THEN <<>> ELSE Front(segments)
        lastSegment == LastSegment(segments)
    IN IF Len(segments) <= 1 \/ Exists(state, objSegments)
       THEN Put(state, Append(objSegments, lastSegment),
                [Get(Walk(state, objSegments), lastSegment) EXCEPT !.t = "T"])
       ELSE state

\* updateFieldTouched(name, state)
updateFieldTouched(name, state) ==
    LET segments == Segments(name)
        objSegments == IF segments = <<>> THEN <<>> ELSE Front(segments)
        exists == Len(segments) <= 1 \/ Exists(state, objSegments)
        lastSegment == LastSegment(segments)
    IN IF exists /\ Truthy(Get(Walk(state, objSegments), lastSegment))
       THEN Put(state, Append(objSegments, lastSegment),
                [Get(Walk(state, objSegments), lastSegment) EXCEPT !.t = "T"])
       ELSE state

\* A lookup that reads the last segment off the root, without the walk.
getFieldStateRoot(name, state) ==
    LET found == Get(state, LastSegment(Segments(name)))
    IN IF Truthy(found) THEN found ELSE Undefined

\* getFieldState(name, $state): Undefined stands for the null it returns.
getFieldState(name, state) ==
    LET segments == Segments(name)
        objSegments == IF segments = <<>> THEN <<>> ELSE Front(segments)
        found == Get(Walk(state, objSegments), LastSegment(segments))
    IN IF Exists(state, objSegments) /\ Truthy(found) THEN found ELSE Undefined

\* updateState(form, validationSchema, state): the rebuilt metadata.
updateState(data, schema, state) == BuildState(data, schema, JsonClone(state))

----------------------------------------------------------------------------
(* The forms' data.                                                        *)

Payloads == {"ok", "bad"}

\* One entry of the users form array: { name }; v is the entry's standing
\* under an object-level test of the schema.
Entry(v, name) == Obj(v, [key \in {"name"} |-> Prim(name)])

\* The entry the demo's addUser appends: name '' violates required().
BlankEntry == Entry("ok", "bad")

\* The entries a form holds.  An entry is valid, or has an invalid name,
\* or (where the schema tests entries) fails the object-level test;
\* without a schema nothing reads the payloads, and every entry is blank.
Entries(validationSchema) ==
    CASE validationSchema.type = "none" -> {BlankEntry}
      [] validationSchema = TestedSchema -> {Entry("ok", "ok"), BlankEntry, Entry("bad", "ok")}
      [] OTHER -> {Entry("ok", "ok"), BlankEntry}

\* The payloads of a scalar field, likewise.
Scalars(validationSchema) == IF validationSchema.type = "none" THEN {"ok"} ELSE Payloads

\* The most entries the form holds.
MaxEntries(validationSchema) ==
    IF validationSchema = TestedSchema THEN MaxTested ELSE MaxUsers

\* data with the optional property key present (a scalar of payload v) or,
\* for v = "none", absent.
WithOptional(data, key, v) ==
    [data EXCEPT !.kids = [k \in (DOMAIN data.kids \ {key}) \cup (IF v = "none" THEN {} ELSE {key}) |->
                              IF k = key THEN Prim(v) ELSE data.kids[k]]]

\* { users, title? }
ListData(users, title) ==
    WithOptional(Obj("ok", [key \in {"users"} |-> Arr(users)]), "title", title)

\* { address: { city? } }
NestedData(city) ==
    Obj("ok", [key \in {"address"} |-> WithOptional(Obj("ok", <<>>), "city", city)])

RECURSIVE SeqsUpTo(_, _)
SeqsUpTo(S, n) ==
    IF n = 0 THEN {<<>>}
    ELSE LET shorter == SeqsUpTo(S, n - 1)
         IN shorter \cup {Append(q, x) : q \in {r \in shorter : Len(r) = n - 1}, x \in S}

ListValues(validationSchema) ==
    {ListData(users, title) :
        users \in SeqsUpTo(Entries(validationSchema), MaxEntries(validationSchema)),
        title \in Scalars(validationSchema) \cup {"none"}}

NestedValues(validationSchema) ==
    {NestedData(city) : city \in Scalars(validationSchema) \cup {"none"}}

\* The initialValues createForm is checked with, for each schema; without
\* a schema, those of both forms.
InitialValues(validationSchema) ==
    CASE validationSchema = NestedSchema -> NestedValues(validationSchema)
      [] validationSchema.type = "none" ->
            ListValues(validationSchema) \cup NestedValues(validationSchema)
      [] OTHER -> ListValues(validationSchema)

IsList(data) == "users" \in DOMAIN data.kids

\* The values resetForm is checked with: for the list form the demo's
\* onSubmit value (no entry) and a form of one valid entry and no title.
ResetValues(data) ==
    IF IsList(data)
    THEN {ListData(<<>>, "bad"), ListData(<<Entry("ok", "ok")>>, "none")}
    ELSE {NestedData("bad"), NestedData("none")}

\* arr.filter((_, i) => i !== index): a new array (no _touched, no
\* _errors) of the elements kept, in order; filter skips holes.
Filter(arr, index) ==
    LET keep == Present(arr) \ {index + 1}
        nth(n) == CHOOSE i \in keep : Cardinality({j \in keep : j < i}) = n - 1
    IN Arr([n \in 1..Cardinality(keep) |-> arr.kids[IdxStr[nth(n)]]])

\* What a single write through the values store can make of data: a scalar
\* set, an optional field added or removed, an entry's object-level
\* standing changed, an entry appended or removed.
Edits(data, validationSchema) ==
    IF IsList(data)
    THEN LET users == Get(data, "users")
             n == Length(users)
         IN {WithOptional(data, "title", v) : v \in Scalars(validationSchema) \cup {"none"}}
            \cup {Put(data, <<"users", IdxStr[i]>>, entry) :
                     i \in 1..n, entry \in Entries(validationSchema)}
            \cup (IF n < MaxEntries(validationSchema) THEN {Put(data, <<"users", IdxStr[n + 1]>>, BlankEntry)}
                  ELSE {})
            \cup {Put(data, <<"users">>, Filter(users, i - 1)) : i \in 1..n}
    ELSE {NestedData(city) : city \in Scalars(validationSchema) \cup {"none"}}

\* The name attributes of the controls handleChange is checked with: every
\* field of the forms, a control without a name, and a name no field has.
ControlNames ==
    {<<>>, <<"title">>, <<"address", ".", "city">>, <<"ghost", ".", "field">>}
    \cup {FormatPath(<<"users", IdxStr[i], "name">>) : i \in 1..MaxUsers}

----------------------------------------------------------------------------
(* The form instance.                                                      *)

VARIABLES
    schema,     \* the validationSchema given to createForm (NoSchema: none)
    values,     \* the value of the values store: the data tree
    state,      \* the value of the state store: the metadata tree
    isValid,    \* the value of the isValid store
    isTouched,  \* the value of the isTouched store
    lastOp,     \* the operation that ran last, and its argument
    config,     \* createForm's css settings, validateOnChange, validateOnBlur
    control,    \* the node formControl is bound to, and its validation classes
    queue       \* the calls of the running operation that are still to be made

vars == <<schema, values, state, isValid, isTouched, lastOp, config, control, queue>>

Op(op, arg) == [op |-> op, arg |-> arg]

\* Most messages an error list holds in a checked run.
MaxErrors == 2

RECURSIVE ErrorsWithin(_, _)
ErrorsWithin(node, n) ==
    /\ Len(node.e) <= n
    /\ \A key \in DOMAIN node.kids : ErrorsWithin(node.kids[key], n)

\* writable(initialValues): the store object, whose own enumerable
\* properties are the functions set, update and subscribe.
StoreObject ==
    Obj("", [key \in {"set", "update", "subscribe"} |-> Prim("function")])

\* The first argument of createForm's call createState(values, state,
\* validationSchema): values is the store, not the data it holds.
CreateFormStateSource(initialValues) == StoreObject

\* A resetForm that hands createState the store, as createForm does.
ResetFormStateSourceStore(data) == StoreObject

\* The first argument of resetForm's call createState(get(values), state,
\* validationSchema): the data the store holds.
ResetFormStateSource(data) == data

\* createState(values, state, validationSchema): the seed is the builders'
\* default parameter {}.
createState(data, validationSchema) == BuildState(data, validationSchema, EmptyObject)

Highlights == {"none", "errors", "all"}

\* A validateForm for which highlight 'all' touches the invalid fields only.
validateFormInvalidOnly(data, st, highlight) ==
    [state |-> ValidateState(data, schema, st, FALSE,
                             highlight \in {"all", "errors"}),
     isValid |-> ValidateResult(data, schema)]

\* validateForm(highlight) on data and metadata st: the metadata and the
\* isValid it leaves.
validateForm(data, st, highlight) ==
    [state |-> ValidateState(data, schema, st, highlight = "all",
                             highlight \in {"all", "errors"}),
     isValid |-> ValidateResult(data, schema)]

\* A subscriber that runs no pass.
OnValuesSetIdle(data, st, valid) == [state |-> st, isValid |-> valid]

\* A subscriber that highlights the errors of the pass it runs.
OnValuesSetHighlight(data, st, valid) ==
    IF schema.type # "none" THEN validateForm(data, st, "errors")
    ELSE [state |-> st, isValid |-> valid]

\* The values store's subscriber: validationSchema && validateForm().
OnValuesSet(data, st, valid) ==
    IF schema.type # "none" THEN validateForm(data, st, "none")
    ELSE [state |-> st, isValid |-> valid]

\* An updateForm that rebuilds and does not validate.
updateFormRebuildOnly(data, st, valid) ==
    LET rebuilt == updateState(data, schema, st)
    IN [state |-> IF Throws(rebuilt) THEN st ELSE rebuilt, isValid |-> valid]

\* updateForm(): updateState, then validateForm().  An exception in
\* updateState leaves the stores as they are.
updateForm(data, st, valid) ==
    LET rebuilt == updateState(data, schema, st)
    IN IF Throws(rebuilt) THEN [state |-> st, isValid |-> valid]
       ELSE validateForm(data, rebuilt, "none")

\* createForm: the stores are created, createState builds the metadata,
\* and values.subscribe runs the subscriber once at once.
\* createForm's css settings (L456-464) and validateOnChange, validateOnBlur
\* (L465-466) when the caller gives none.
DefaultConfig ==
    [enabled |-> TRUE, useValid |-> TRUE, useInvalid |-> TRUE,
     validateOnChange |-> TRUE, validateOnBlur |-> TRUE]

\* The settings createForm is checked with.
Configs ==
    [enabled : BOOLEAN, useValid : BOOLEAN, useInvalid : BOOLEAN,
     validateOnChange : BOOLEAN, validateOnBlur : BOOLEAN]

\* css.validClass and css.invalidClass
validClass == "is-valid"

invalidClass == "is-invalid"

\* A node before formControl is applied to it: name is its name attribute
\* (<<>>: none), classes what its classList holds of the two classes.
NoControl == [mounted |-> FALSE, name |-> <<>>, classes |-> {}]

\* checkValidity without the two classList.remove calls.
checkValidityKeep(name, classes, st, css) ==
    IF name = <<>> THEN classes
    ELSE LET fieldState == getFieldState(name, st)
             invalid == fieldState.t = "T" /\ Len(fieldState.e) > 0
             valid == fieldState.t = "T" /\ Len(fieldState.e) = 0
         IN IF invalid THEN (IF css.useInvalid THEN classes \cup {invalidClass} ELSE classes)
            ELSE IF valid /\ css.useValid THEN classes \cup {validClass}
            ELSE classes

\* checkValidity($state) on a node with this name and these classes: the
\* classes it leaves.  Both classes are removed, then at most one is added.
checkValidity(name, classes, st, css) ==
    IF name = <<>> THEN classes
    ELSE LET fieldState == getFieldState(name, st)
             invalid == fieldState.t = "T" /\ Len(fieldState.e) > 0
             valid == fieldState.t = "T" /\ Len(fieldState.e) = 0
         IN IF invalid THEN (IF css.useInvalid THEN {invalidClass} ELSE {})
            ELSE IF valid /\ css.useValid THEN {validClass}
            ELSE {}

\* formControl subscribes the node to the three stores only when it has a
\* name (L544).
Subscribed(node) == node.mounted /\ node.name # <<>>

\* The state store's subscriber (L545-547), run by every state.set.
OnState(node, st, css) ==
    IF Subscribed(node) /\ css.enabled /\ css.validateOnChange
    THEN [node EXCEPT !.classes = checkValidity(node.name, @, st, css)]
    ELSE node

\* The cssValidator store's subscriber (L548-550).
OnCssValidator(node, st, css) ==
    IF Subscribed(node)
    THEN [node EXCEPT !.classes = checkValidity(node.name, @, st, css)]
    ELSE node

\* A validationReset subscriber that leaves the classes alone.
OnValidationResetKeep(node) == node

\* The validationReset store's subscriber (L551-554).
OnValidationReset(node) ==
    IF Subscribed(node) THEN [node EXCEPT !.classes = {}] ELSE node

\* What an operation of the form does to the bound control: stateSet when
\* it ends with state.set, bumped when it updates cssValidator (L479),
\* reset when it updates validationReset (L490).
Reacts(stateSet, bumped, reset) ==
    control' =
        LET shown == IF stateSet THEN OnState(control, state', config) ELSE control
            checked == IF bumped THEN OnCssValidator(shown, state', config) ELSE shown
        IN IF reset THEN OnValidationReset(checked) ELSE checked

Init ==
    \E validationSchema \in Schemas :
      \E initialValues \in InitialValues(validationSchema) :
        LET created == createState(CreateFormStateSource(initialValues), validationSchema)
        IN /\ schema = validationSchema
           /\ values = initialValues
           /\ ~Throws(created)
           /\ state = IF validationSchema.type # "none"
                      THEN ValidateState(initialValues, validationSchema, created, FALSE, FALSE)
                      ELSE created
           /\ isValid = ValidateResult(initialValues, validationSchema)
           /\ isTouched = FALSE
           /\ lastOp = Op("createForm", "")
           /\ config = DefaultConfig
           /\ queue = <<>>
           /\ control = NoControl

\* The stores after an operation that left metadata st and validity valid.
Stores(after, op) ==
    /\ ErrorsWithin(after.state, MaxErrors)
    /\ state' = after.state
    /\ isValid' = after.isValid
    /\ lastOp' = op

\* A write to the values store (values.set, a bound input), and the
\* subscriber's pass.
WriteValues ==
    \E data \in Edits(values, schema) :
        /\ values' = data
        /\ Stores(OnValuesSet(data, state, isValid), Op("write", ""))
        /\ Reacts(schema.type # "none", FALSE, FALSE)
        /\ UNCHANGED <<schema, isTouched, config, queue>>

\* A validateForm whose highlight 'all' marks the form itself touched.
ValidateFormTouching ==
    \E highlight \in Highlights :
        /\ Stores(validateForm(values, state, highlight), Op("validateForm", highlight))
        /\ Reacts(schema.type # "none",
                  config.enabled /\ ~config.validateOnChange /\ highlight # "none",
                  FALSE)
        /\ isTouched' = (highlight = "all" \/ isTouched)
        /\ UNCHANGED <<schema, values, config, queue>>

ValidateForm ==
    \E highlight \in Highlights :
        /\ Stores(validateForm(values, state, highlight), Op("validateForm", highlight))
        /\ Reacts(schema.type # "none",
                  config.enabled /\ ~config.validateOnChange /\ highlight # "none",
                  FALSE)
        /\ UNCHANGED <<schema, values, isTouched, config, queue>>

UpdateForm ==
    /\ Stores(updateForm(values, state, isValid), Op("updateForm", ""))
    /\ Reacts(TRUE, FALSE, FALSE)
    /\ UNCHANGED <<schema, values, isTouched, config, queue>>

\* resetForm(newValue?): Undefined stands for a call without argument.
\* values.set(newValue) runs the subscriber on the old metadata, which
\* state.set({}) then discards.
ResetForm ==
    \E newValue \in ResetValues(values) \cup {Undefined} :
        LET data == IF Truthy(newValue) THEN newValue ELSE values
            fresh == createState(ResetFormStateSource(data), schema)
        IN /\ values' = data
           /\ state' = IF Throws(fresh) THEN EmptyObject ELSE fresh
           /\ isValid' = FALSE
           /\ isTouched' = FALSE
           /\ lastOp' = Op("resetForm", IF Truthy(newValue) THEN "newValue" ELSE "")
           /\ Reacts(TRUE, FALSE, TRUE)
           /\ UNCHANGED <<schema, config, queue>>

\* handleChange(event): event.target.name is the control's name.
HandleChange ==
    \E name \in ControlNames :
        /\ state' = IF name # <<>> THEN updateFieldTouched(name, state) ELSE state
        /\ isTouched' = TRUE
        /\ lastOp' = Op("handleChange", PathString(name))
        /\ Reacts(name # <<>>, FALSE, FALSE)
        /\ UNCHANGED <<schema, values, isValid, config, queue>>

SetTouched ==
    \E touched \in BOOLEAN :
        /\ isTouched' = touched
        /\ lastOp' = Op("setTouched", IF touched THEN "true" ELSE "false")
        /\ UNCHANGED <<schema, values, state, isValid, config, control, queue>>

\* The demo's addUser: $values.users = [...$values.users, entry]; updateForm()
AddUser ==
    LET users == Get(values, "users")
        data == Put(values, <<"users", IdxStr[Length(users) + 1]>>, BlankEntry)
        written == OnValuesSet(data, state, isValid)
    IN /\ IsList(values)
       /\ Length(users) < MaxEntries(schema)
       /\ values' = data
       /\ Stores(updateForm(data, written.state, written.isValid), Op("addUser", ""))
       /\ Reacts(TRUE, FALSE, FALSE)
       /\ UNCHANGED <<schema, isTouched, config, queue>>

\* The demo's removeUser(index): $values.users and $state.users are
\* filtered at index, then updateForm().  $state.users.filter throws a
\* TypeError when the metadata has no users property.
RemoveUser ==
    /\ IsList(values)
    /\ \E i \in 1..Length(Get(values, "users")) :
        LET data == Put(values, <<"users">>, Filter(Get(values, "users"), i - 1))
            written == OnValuesSet(data, state, isValid)
            threw == Get(written.state, "users").k # "arr"
            filtered == Put(written.state, <<"users">>,
                            Filter(Get(written.state, "users"), i - 1))
        IN /\ values' = data
           /\ Stores(IF threw THEN written
                     ELSE updateForm(data, filtered, written.isValid),
                     Op("removeUser", IF threw THEN "threw" ELSE IdxStr[i]))
           /\ Reacts(schema.type # "none" \/ ~threw, FALSE, FALSE)
           /\ UNCHANGED <<schema, isTouched, config, queue>>

Next ==
    \/ WriteValues
    \/ ValidateForm
    \/ UpdateForm
    \/ ResetForm
    \/ HandleChange
    \/ SetTouched
    \/ AddUser
    \/ RemoveUser

Spec == Init /\ [][Next]_vars

----------------------------------------------------------------------------
(* A form with a bound control: formControl applied to one node of the     *)
(* nested form, under every setting of css and validateOnChange/Blur.      *)

\* The name attributes formControl is checked with: none, a field, a
\* name no field has.
MountNames == {<<>>, <<"address", ".", "city">>, <<"ghost", ".", "field">>}

InitControl ==
    \E validationSchema \in {NestedSchema, NoSchema} :
      \E initialValues \in NestedValues(validationSchema) :
        \E settings \in Configs :
          LET created == createState(CreateFormStateSource(initialValues), validationSchema)
          IN /\ schema = validationSchema
             /\ values = initialValues
             /\ ~Throws(created)
             /\ state = IF validationSchema.type # "none"
                        THEN ValidateState(initialValues, validationSchema, created, FALSE, FALSE)
                        ELSE created
             /\ isValid = ValidateResult(initialValues, validationSchema)
             /\ isTouched = FALSE
             /\ lastOp = Op("createForm", "")
             /\ config = settings
             /\ queue = <<>>
             /\ control = NoControl

\* formControl(node): the three subscriptions call their callbacks at once,
\* in the order of L545, L548, L551.
Mount ==
    \E name \in MountNames :
        LET node == [mounted |-> TRUE, name |-> name, classes |-> control.classes]
        IN /\ ~control.mounted
           /\ control' = OnValidationReset(
                             OnCssValidator(OnState(node, state, config), state, config))
           /\ lastOp' = Op("mount", PathString(name))
           /\ UNCHANGED <<schema, values, state, isValid, isTouched, config, queue>>

\* A listener that handles the event whatever validateOnChange and
\* validateOnBlur say.
ListenerAlways(enabled, event) ==
    LET touched == IF control.name # <<>>
                   THEN updateFieldTouched(control.name, state) ELSE state
        shown == IF control.name # <<>>
                 THEN OnState(control, touched, config) ELSE control
    IN /\ control.mounted
       /\ state' = touched
       /\ isTouched' = TRUE
       /\ control' = IF config.enabled
                     THEN [shown EXCEPT !.classes =
                              checkValidity(control.name, @, touched, config)]
                     ELSE shown
       /\ lastOp' = Op(event, "")
       /\ UNCHANGED <<schema, values, isValid, config, queue>>

\* A change or blur event on the bound node, handled when enabled says so:
\* handleChange(event), then css.enabled && checkValidity(get(state)).
Listener(enabled, event) ==
    LET handled == control.mounted /\ enabled
        touched == IF handled /\ control.name # <<>>
                   THEN updateFieldTouched(control.name, state) ELSE state
        shown == IF handled /\ control.name # <<>>
                 THEN OnState(control, touched, config) ELSE control
    IN /\ control.mounted
       /\ state' = touched
       /\ isTouched' = (handled \/ isTouched)
       /\ control' = IF handled /\ config.enabled
                     THEN [shown EXCEPT !.classes =
                              checkValidity(control.name, @, touched, config)]
                     ELSE shown
       /\ lastOp' = Op(event, "")
       /\ UNCHANGED <<schema, values, isValid, config, queue>>

\* changeListener (L508-513)
Change == Listener(config.validateOnChange, "change")

\* blurListener (L514-519)
Blur == Listener(config.validateOnBlur, "blur")

NextControl ==
    \/ WriteValues
    \/ ValidateForm
    \/ UpdateForm
    \/ ResetForm
    \/ HandleChange
    \/ SetTouched
    \/ Mount
    \/ Change
    \/ Blur

SpecControl == InitControl /\ [][NextControl]_vars

----------------------------------------------------------------------------
(* Reading the metadata tree.                                              *)

\* A leaf of the metadata tree: an object with no property but _touched
\* and _errors.
IsLeaf(node) == node.k = "obj" /\ DOMAIN node.kids = {}

\* The segment lists of the leaves below node.
RECURSIVE LeafPaths(_)
LeafPaths(node) ==
    IF node.k \notin {"obj", "arr"} THEN {}
    ELSE UNION {IF IsLeaf(node.kids[key]) THEN {<<key>>}
                ELSE {<<key>> \o p : p \in LeafPaths(node.kids[key])} :
                    key \in DOMAIN node.kids}

Touched(node) == node.t = "T"

\* No node at or below node has a message in its error list.
RECURSIVE NoErrors(_)
NoErrors(node) ==
    /\ node.e = <<>>
    /\ \A key \in DOMAIN node.kids : NoErrors(node.kids[key])

\* Every leaf below node is untouched and has an empty error list.
LeavesFresh(node) ==
    \A p \in LeafPaths(node) : ~Touched(Walk(node, p)) /\ Walk(node, p).e = <<>>

\* meta has the shape of data: a record for a record, with the same keys;
\* a sequence for an array, with the same length; a leaf for a scalar.
RECURSIVE Mirrors(_, _)
Mirrors(meta, data) ==
    CASE data.k = "obj" ->
            /\ meta.k = "obj"
            /\ DOMAIN meta.kids = DOMAIN data.kids
            /\ \A key \in DOMAIN data.kids : Mirrors(meta.kids[key], data.kids[key])
      [] data.k = "arr" ->
            /\ meta.k = "arr"
            /\ DOMAIN meta.kids = DOMAIN data.kids
            /\ \A key \in DOMAIN data.kids : Mirrors(meta.kids[key], data.kids[key])
      [] OTHER -> IsLeaf(meta)

\* meta has the shape the schema-directed builder gives data: a node for
\* every field of the schema, in the data or not; for an array field one
\* entry for each element of the data array; a leaf for a scalar field.
RECURSIVE SchemaMirrors(_, _, _)
SchemaMirrors(meta, data, sch) ==
    CASE sch.type = "object" ->
            /\ meta.k = "obj"
            /\ DOMAIN meta.kids = Range(sch.keys)
            /\ \A key \in Range(sch.keys) :
                  SchemaMirrors(meta.kids[key], Get(data, key), sch.fields[key])
      [] sch.type = "array" ->
            /\ meta.k = "arr"
            /\ DOMAIN meta.kids = IdxKeys(Length(data))
            /\ \A idx \in IdxKeys(Length(data)) :
                  SchemaMirrors(meta.kids[idx], Get(data, idx),
                                SNode("object", sch.keys, sch.fields, sch.tests))
      [] OTHER -> IsLeaf(meta)

\* The violations the validation capability reports for the form's data.
Reported == Violations(values, schema, <<>>)

\* The last operation ended with updateForm's rebuild and pass.
Rebuilt ==
    \/ lastOp.op \in {"updateForm", "addUser"}
    \/ lastOp.op = "removeUser" /\ lastOp.arg # "threw"

\* The last operation ended with a validation pass.
PassRan ==
    \/ Rebuilt
    \/ lastOp.op = "validateForm"
    \/ lastOp.op \in {"write", "removeUser"} /\ schema.type # "none"

----------------------------------------------------------------------------
(* The claims.                                                             *)

\* C1: immediately after createForm returns, for every initialValues, with
\* or without a schema, the metadata tree mirrors the data tree (same keys
\* for records, same lengths for sequences) and every leaf is untouched
\* with an empty error list.
C1_CreateFormMirrors ==
    lastOp.op = "createForm" => Mirrors(state, values) /\ LeavesFresh(state)

\* C2: after a structural change of the data followed by updateForm(), the
\* metadata tree has exactly the keys of the data records and the lengths
\* of the data arrays: no node for a field or entry the data no longer
\* has, and one for each it has.
C2_RebuildMirrors == Rebuilt => Mirrors(state, values)

\* The data node at p is a scalar, the same before and after the step:
\* the step is updateForm alone, an append, or the removal of a later entry.
Intact(p) ==
    /\ Walk(values, p).k = "prim"
    /\ Walk(values', p) = Walk(values, p)
    /\ \/ lastOp'.op \in {"updateForm", "addUser"}
       \/ /\ lastOp'.op = "removeUser"
          /\ lastOp'.arg # "threw"
          /\ Head(p) = "users" => \E i, j \in 1..Len(IdxStr) :
                                     /\ IdxStr[i] = p[2]
                                     /\ IdxStr[j] = lastOp'.arg
                                     /\ i < j

\* C3: a leaf at path P that is touched, and whose data node a structural
\* change elsewhere leaves intact, is still touched after updateForm().
C3_TouchPreserved ==
    [][\A p \in LeafPaths(state) :
          Touched(Walk(state, p)) /\ Intact(p)
              => IsLeaf(Walk(state', p)) /\ Touched(Walk(state', p))]_vars

\* A touched leaf of the first entry, after an entry was appended behind
\* it or the entry behind it was removed.
C3_Witness ==
    /\ \/ lastOp.op = "addUser"
       \/ lastOp = Op("removeUser", "1")
    /\ <<"users", "0", "name">> \in LeafPaths(state)
    /\ Touched(Walk(state, <<"users", "0", "name">>))
    /\ Length(Get(values, "users")) >= 1

\* C4: in a failed pass, a violation whose path has an intermediate segment
\* missing from the metadata is dropped on its own: no node is inserted for
\* it, and every other violation of the pass whose path resolves, reported
\* before or after it, has its message in its field's error list.
C4_DroppedAlone ==
    PassRan /\ schema.type # "none" =>
        \A i \in 1..Len(Reported) :
            LET segments == Segments(Reported[i].path)
            IN IF Exists(state, Front(segments))
               THEN Reported[i].message \in Range(getFieldState(Reported[i].path, state).e)
               ELSE getFieldState(Reported[i].path, state) = Undefined

\* C5: immediately after every validation pass, isValid is true if and
\* only if no node of the metadata tree has a non-empty error list.
C5_ValidIffNoErrors == PassRan => (isValid <=> NoErrors(state))

\* C5, as the code has it: immediately after every validation pass, isValid
\* is true if and only if there is a schema and the validation capability
\* reported no violation; and when isValid is true, every leaf of the
\* metadata tree has an empty error list.
C5_ValidIffNoViolation ==
    PassRan =>
        /\ isValid <=> (schema.type # "none" /\ Reported = <<>>)
        /\ isValid => \A p \in LeafPaths(state) : Walk(state, p).e = <<>>

\* A pass that succeeds on a form that has an entry and a touched leaf.
C5_Witness ==
    /\ PassRan
    /\ isValid
    /\ \E p \in LeafPaths(state) : Touched(Walk(state, p))
    /\ Length(Get(values, "users")) >= 1

\* The step is a validation pass and nothing else: validateForm, or the
\* subscriber's pass on a write to the values store.
PassStep == lastOp'.op \in {"validateForm", "write"}

\* C6: touched is monotonic under validation: a leaf that is touched
\* before a validation pass (validateForm with any highlight, or the
\* automatic pass on a value change) is touched after it.
C6_TouchedMonotonic ==
    [][PassStep =>
          \A p \in LeafPaths(state) :
              Touched(Walk(state, p)) => Touched(Walk(state', p))]_vars

\* A failed automatic pass on a form with a touched leaf.
C6_Witness ==
    /\ lastOp.op = "write"
    /\ schema.type # "none"
    /\ ~isValid
    /\ \E p \in LeafPaths(state) : Touched(Walk(state, p))

\* The paths of the reported violations.
ReportedPaths == {Reported[i].path : i \in 1..Len(Reported)}

\* C7: after validateForm('errors') on invalid data, isValid is false,
\* every field with a reported violation has a non-empty error list and is
\* touched, and every leaf without a violation keeps the touched value it
\* had before the call.
C7_ErrorsHighlight ==
    [][lastOp' = Op("validateForm", "errors") /\ schema.type # "none"
                                             /\ Reported # <<>> =>
          /\ ~isValid'
          /\ \A path \in ReportedPaths :
                /\ getFieldState(path, state').e # <<>>
                /\ Touched(getFieldState(path, state'))
          /\ \A p \in LeafPaths(state) :
                FormatPath(p) \notin ReportedPaths =>
                    Touched(Walk(state', p)) = Touched(Walk(state, p))]_vars

\* C8: after validateForm('all'), every leaf of the metadata tree, those
\* inside form-array entries and nested objects too, is touched, whether
\* validation succeeds or fails.
C8_AllTouches ==
    lastOp = Op("validateForm", "all") =>
        \A p \in LeafPaths(state) : Touched(Walk(state, p))

\* A failed validateForm('all') that touched the invalid leaf of an entry
\* and a leaf without error.
C8_Witness ==
    /\ lastOp = Op("validateForm", "all")
    /\ ~isValid
    /\ <<"users", "0", "name">> \in LeafPaths(state)
    /\ Walk(state, <<"users", "0", "name">>).e # <<>>
    /\ \E p \in LeafPaths(state) : Walk(state, p).e = <<>>

\* C9: validateForm('none'), and the pass run by updateForm and by the
\* automatic revalidation, leaves the touched flag of every existing leaf
\* as it was before the pass, whether validation succeeds or fails.
C9_NoneKeepsTouched ==
    [][/\ lastOp' = Op("validateForm", "none") \/ lastOp'.op = "write" =>
             \A p \in LeafPaths(state) :
                 Touched(Walk(state', p)) = Touched(Walk(state, p))
       /\ lastOp'.op = "updateForm" /\ ~Throws(updateState(values, schema, state)) =>
             \A p \in LeafPaths(updateState(values, schema, state)) :
                 Touched(Walk(state', p)) =
                     Touched(Walk(updateState(values, schema, state), p))]_vars

\* A failed validateForm('none') on a form with a touched leaf and an
\* untouched leaf that has an error.
C9_Witness ==
    /\ lastOp = Op("validateForm", "none")
    /\ ~isValid
    /\ \E p \in LeafPaths(state) : Touched(Walk(state, p))
    /\ \E p \in LeafPaths(state) : ~Touched(Walk(state, p)) /\ Walk(state, p).e # <<>>

\* What resetForm(newData?) leaves in every case: isValid and isTouched
\* false, every leaf untouched, every error list empty, the data newData
\* when one was supplied and unchanged otherwise.
ResetPost ==
    /\ ~isValid'
    /\ ~isTouched'
    /\ LeavesFresh(state')
    /\ NoErrors(state')
    /\ IF lastOp'.arg = "newValue" THEN values' \in ResetValues(values)
       ELSE values' = values

\* C10: after resetForm(newData?), from any reachable state, isValid and
\* isTouched are false, every leaf is untouched, every error list is empty,
\* the data tree is newData when supplied (unchanged otherwise), and the
\* metadata tree mirrors the shape of the resulting data tree.
C10_ResetMirrors ==
    [][lastOp'.op = "resetForm" => ResetPost /\ Mirrors(state', values')]_vars

\* C10, as the code has it: the same, the metadata tree having the shape
\* the builder gives the resulting data: with a schema a node for every
\* schema field (present in the data or not) and one entry for each
\* element of a data array; without a schema the shape of the data.
C10_ResetBuilds ==
    [][lastOp'.op = "resetForm" =>
          /\ ResetPost
          /\ IF schema.type # "none" THEN SchemaMirrors(state', values', schema)
             ELSE Mirrors(state', values')]_vars

\* resetForm(newData) with a schema, newData having an entry and no title.
C10_Witness ==
    /\ lastOp = Op("resetForm", "newValue")
    /\ schema = ListSchema
    /\ values = ListData(<<Entry("ok", "ok")>>, "none")
    /\ Length(Get(state, "users")) = 1

RECURSIVE NodePaths(_)
NodePaths(node) ==
    IF node.k \notin {"obj", "arr"} THEN {}
    ELSE UNION {{<<key>>} \cup {<<key>> \o p : p \in NodePaths(node.kids[key])} :
                    key \in {k \in DOMAIN node.kids : node.kids[k].k \in {"obj", "arr"}}}

\* a and b have the same error list at every node.
RECURSIVE SameErrors(_, _)
SameErrors(a, b) ==
    /\ a.e = b.e
    /\ DOMAIN a.kids = DOMAIN b.kids
    /\ \A key \in DOMAIN a.kids : SameErrors(a.kids[key], b.kids[key])

\* C12: errors are recomputed, never accumulated: validateForm('none')
\* twice in a row with no data change yields identical error lists at
\* every metadata node, and after any pass no error list contains a
\* message that the pass did not report for that node's path.
C12_ErrorsRecomputed ==
    [][/\ lastOp = Op("validateForm", "none") /\ lastOp' = Op("validateForm", "none")
          => SameErrors(state, state')
       /\ lastOp'.op \in {"validateForm", "write", "updateForm", "addUser"}
             /\ schema.type # "none"
          => \A p \in NodePaths(state') :
                \A m \in Range(Walk(state', p).e) :
                   \E i \in 1..Len(Violations(values', schema, <<>>)) :
                      /\ Violations(values', schema, <<>>)[i].path = FormatPath(p)
                      /\ Violations(values', schema, <<>>)[i].message = m]_vars

----------------------------------------------------------------------------
(* What the stores' subscribers are shown.  A svelte store's set assigns   *)
(* the value and then calls the store's subscribers, at once when set is   *)
(* called from outside any subscriber, and after the running subscribers   *)
(* when it is called from inside one; a store of a boolean calls them      *)
(* only when the value changed.  A snapshot is what a subscriber reads     *)
(* from the four stores when it is called.                                 *)

Snapshot(data, st, valid, touched) ==
    [values |-> data, state |-> st, isValid |-> valid, isTouched |-> touched]

\* validateForm(highlight) called directly: validate's state.set (none
\* without a schema, where setErrors fails before it), then isValid.set.
validateFormNotified(data, st, valid, touched, highlight) ==
    LET after == validateForm(data, st, highlight)
    IN (IF schema.type # "none"
        THEN <<Snapshot(data, after.state, valid, touched)>> ELSE <<>>)
       \o (IF after.isValid # valid
           THEN <<Snapshot(data, after.state, after.isValid, touched)>> ELSE <<>>)

\* updateForm(): updateState's state.set, then validateForm()'s.
updateFormNotified(data, st, valid, touched) ==
    LET rebuilt == updateState(data, schema, st)
    IN IF Throws(rebuilt) THEN <<>>
       ELSE <<Snapshot(data, rebuilt, valid, touched)>>
            \o validateFormNotified(data, rebuilt, valid, touched, "none")

\* resetForm(newValue?): values.set (its subscribers run after the pass of
\* the form's own subscriber), state.set({}), isValid.set(false),
\* isTouched.set(false), createState's state.set.
resetFormNotified(newValue, data, st, valid, touched) ==
    LET written == IF Truthy(newValue) THEN OnValuesSet(newValue, st, valid)
                   ELSE [state |-> st, isValid |-> valid]
        after == IF Truthy(newValue) THEN newValue ELSE data
        fresh == createState(ResetFormStateSource(after), schema)
    IN (IF Truthy(newValue)
        THEN <<Snapshot(after, written.state, written.isValid, touched)>> ELSE <<>>)
       \o <<Snapshot(after, EmptyObject, written.isValid, touched)>>
       \o (IF written.isValid THEN <<Snapshot(after, EmptyObject, FALSE, touched)>> ELSE <<>>)
       \o (IF touched THEN <<Snapshot(after, EmptyObject, FALSE, FALSE)>> ELSE <<>>)
       \o (IF Throws(fresh) THEN <<>> ELSE <<Snapshot(after, fresh, FALSE, FALSE)>>)

\* C13: no subscriber of the values, state, isValid or isTouched stores is
\* notified of a partial intermediate state of a single operation: what a
\* subscriber is shown during updateForm, validateForm or resetForm is the
\* stores as they were before the operation or as they are after it.
C13_NoPartialStates ==
    [][\A shown \in Range(
            CASE lastOp'.op = "updateForm" ->
                    updateFormNotified(values, state, isValid, isTouched)
              [] lastOp'.op = "validateForm" ->
                    validateFormNotified(values, state, isValid, isTouched, lastOp'.arg)
              [] lastOp'.op = "resetForm" ->
                    resetFormNotified(IF lastOp'.arg = "newValue" THEN values' ELSE Undefined,
                                      values, state, isValid, isTouched)
              [] OTHER -> <<>>) :
          \/ shown = Snapshot(values, state, isValid, isTouched)
          \/ shown = Snapshot(values', state', isValid', isTouched')]_vars

\* name resolves to a leaf of the metadata st.
ResolvesToLeaf(name, st) == name # <<>> /\ IsLeaf(getFieldState(name, st))

\* C14: handleChange for a control whose name resolves to a leaf sets that
\* leaf's touched flag, leaves every other leaf's touched flag and every
\* error list unchanged, and sets isTouched; for a name whose intermediate
\* or final segment is not in the metadata it leaves the metadata tree
\* unchanged: no node created, no flag changed.
C14_MarkTouchedFrame ==
    [][lastOp'.op = "handleChange" =>
          \A name \in ControlNames :
              PathString(name) = lastOp'.arg =>
                  IF ResolvesToLeaf(name, state)
                  THEN /\ isTouched'
                       /\ LeafPaths(state') = LeafPaths(state)
                       /\ SameErrors(state, state')
                       /\ \A p \in LeafPaths(state) :
                             Touched(Walk(state', p)) =
                                 (p = Segments(name) \/ Touched(Walk(state, p)))
                  ELSE getFieldState(name, state) = Undefined => state' = state]_vars

\* The second entry's name was marked touched, the first entry's was not;
\* the title field has an error.
C14_Witness ==
    /\ lastOp = Op("handleChange", "users[1].name")
    /\ <<"users", "1", "name">> \in LeafPaths(state)
    /\ Touched(Walk(state, <<"users", "1", "name">>))
    /\ ~Touched(Walk(state, <<"users", "0", "name">>))
    /\ Walk(state, <<"title">>).e # <<>>

\* The passes in which applying the violations fails with an exception:
\* without a schema validate hands setErrors a TypeError, whose inner is
\* undefined, and the loop over mainError.inner throws.
ApplicationFails(validationSchema) == validationSchema.type = "none"

\* C15: when applying the violations to the metadata tree fails
\* unexpectedly, the failure is caught and the metadata tree is left as it
\* was before the pass: no error list cleared, no message appended, no
\* touched flag changed.
C15_FailureLeavesTree ==
    [][lastOp'.op = "validateForm" /\ ApplicationFails(schema) => state' = state]_vars

\* The entry of metadata st at position j (from 1) of users.
UserState(st, j) == Get(Get(st, "users"), IdxStr[j])

\* After the removal of the entry at position i, the metadata of users has
\* the length of the data, and every surviving entry has at its new
\* position the touched flags it had at its old one.
Reindexed(i) ==
    /\ Get(state', "users").k = "arr"
    /\ DOMAIN Get(state', "users").kids = DOMAIN Get(values', "users").kids
    /\ \A j \in 1..Length(Get(values', "users")) :
          LET new == UserState(state', j)
              old == UserState(state, IF j < i THEN j ELSE j + 1)
          IN \A q \in LeafPaths(new) \cup LeafPaths(old) :
                Touched(Walk(new, q)) = Touched(Walk(old, q))

\* C16: removing the form-array entry at index i by the documented
\* procedure (filter values, filter state at the same index, updateForm())
\* re-indexes the metadata with the data: the metadata sequence has the new
\* data length, every surviving entry has at its new index the touched
\* flags it had at its old index, and no touched flag of the removed entry
\* appears at any index.
C16_RemovalReindexes ==
    [][lastOp'.op = "removeUser" =>
          \E i \in 1..Len(IdxStr) : IdxStr[i] = lastOp'.arg /\ Reindexed(i)]_vars

\* The same, for the removals in which the procedure ran to its end.
C16_CompletedRemovalReindexes ==
    [][lastOp'.op = "removeUser" /\ lastOp'.arg # "threw" =>
          \E i \in 1..Len(IdxStr) : IdxStr[i] = lastOp'.arg /\ Reindexed(i)]_vars

\* The messages among violations for path, in the order reported.
MessagesAt(violations, path) ==
    LET hits == SelectSeq(violations, LAMBDA v : v.path = path)
    IN [i \in 1..Len(hits) |-> hits[i].message]

\* The path of the name field of the entry at position j (from 1).
NamePath(j) == FormatPath(<<"users", IdxStr[j], "name">>)

\* The step appends an entry at a position for which the metadata holds
\* nothing (every earlier structural change was followed by updateForm())
\* and runs updateForm().
Appends ==
    /\ lastOp'.op = "addUser"
    /\ UserState(state, Length(Get(values', "users"))) = Undefined

\* C17: after appending an entry to a form array and calling updateForm(),
\* the lookup of each leaf of the new entry (users[n].name) returns a
\* fresh leaf, untouched and with an empty error list, whichever entries
\* were touched, added or removed earlier.
C17_AppendFreshLeaf ==
    [][Appends =>
          LET leaf == getFieldState(NamePath(Length(Get(values', "users"))), state')
          IN IsLeaf(leaf) /\ ~Touched(leaf) /\ leaf.e = <<>>]_vars

\* C17, as the code has it: the lookup returns an untouched leaf whose
\* error list holds what the pass of updateForm() reported for the new
\* leaf: nothing when the new entry is valid or there is no schema, the
\* violation's message when it is not.
C17_AppendValidatedLeaf ==
    [][Appends =>
          LET path == NamePath(Length(Get(values', "users")))
              leaf == getFieldState(path, state')
          IN /\ IsLeaf(leaf)
             /\ ~Touched(leaf)
             /\ leaf.e = MessagesAt(Violations(values', schema, <<>>), path)]_vars

\* A second entry appended behind a touched first one: its name leaf is
\* untouched and has the message of the required name.
C17_Witness ==
    /\ lastOp.op = "addUser"
    /\ schema = ListSchema
    /\ Length(Get(values, "users")) = 2
    /\ Touched(getFieldState(NamePath(1), state))
    /\ ~Touched(getFieldState(NamePath(2), state))
    /\ getFieldState(NamePath(2), state).e = <<"invalid">>

----------------------------------------------------------------------------
(* C18.  With css.enabled false no operation or event (mounting, change,   *)
(* blur, a state change, validateForm with any highlight) leaves validClass *)
(* or invalidClass on the bound control; with css.enabled true the control  *)
(* never holds invalidClass when useInvalid is false, nor validClass when   *)
(* useValid is false.                                                       *)

----------------------------------------------------------------------------
(* C19.  Each presentation refresh of a bound control leaves it in one of  *)
(* three states decided by the field's metadata: invalid (touched, errors  *)
(* non-empty: invalidClass alone), valid (touched, errors empty: validClass *)
(* alone), untouched (not touched or not found: neither); the two classes   *)
(* are never both present.                                                  *)

\* A step whose last act on the control's classes is a checkValidity: a
\* handled change or blur, a state.set seen by the state subscriber, or
\* validateForm's update of cssValidator.
Refreshes ==
    /\ Subscribed(control')
    /\ config.enabled
    /\ \/ lastOp'.op = "change" /\ config.validateOnChange
       \/ lastOp'.op = "blur" /\ config.validateOnBlur
       \/ /\ config.validateOnChange
          /\ \/ lastOp'.op \in {"write", "validateForm"} /\ schema.type # "none"
             \/ lastOp'.op = "updateForm"
             \/ lastOp'.op = "handleChange" /\ lastOp'.arg # ""
       \/ /\ ~config.validateOnChange
          /\ lastOp'.op = "validateForm"
          /\ lastOp'.arg # "none"

\* As claimed: the class follows the metadata alone.
C19_ThreeStates ==
    [][/\ Cardinality(control'.classes) <= 1
       /\ Refreshes =>
            LET fieldState == getFieldState(control'.name, state')
            IN control'.classes =
                 IF fieldState.t = "T" /\ fieldState.e # <<>> THEN {invalidClass}
                 ELSE IF fieldState.t = "T" THEN {validClass}
                 ELSE {}]_vars

\* As the code has it: the invalid state shows invalidClass only when
\* css.useInvalid, the valid state validClass only when css.useValid.
C19_ThreeStatesGated ==
    [][/\ Cardinality(control'.classes) <= 1
       /\ Refreshes =>
            LET fieldState == getFieldState(control'.name, state')
                touched == fieldState.t = "T"
            IN control'.classes =
                 {c \in {invalidClass} :
                     touched /\ fieldState.e # <<>> /\ config.useInvalid}
                 \cup {c \in {validClass} :
                     touched /\ fieldState.e = <<>> /\ config.useValid}]_vars

\* A refresh on a touched field in error with css.useInvalid false: the
\* control shows neither class.
C19_Witness ==
    /\ config.enabled
    /\ ~config.useInvalid
    /\ config.validateOnBlur
    /\ lastOp.op = "blur"
    /\ control.name = <<"address", ".", "city">>
    /\ getFieldState(control.name, state).t = "T"
    /\ getFieldState(control.name, state).e # <<>>
    /\ control.classes = {}

----------------------------------------------------------------------------
(* C20.  Path round-trip: for every dotted or bracketed field path the     *)
(* lookup getFieldState returns the metadata node that the writes addressed *)
(* by the same path change (updateFieldTouched marking it touched, setErrors *)
(* appending a message to it), and returns null when an intermediate or the *)
(* final segment is absent.                                                 *)

\* The paths checked: the control names, the same leaves in dotted form, the
\* containers, and paths that run through a leaf or a missing object.
RoundTripPaths ==
    ControlNames
    \cup {<<"users">>, <<"address">>, <<"users", "[", "0", "]">>,
          <<"users", ".", "0", ".", "name">>, <<"users", ".", "1", ".", "name">>,
          <<"title", ".", "length">>, <<"address", ".", "city", ".", "zip">>,
          <<"users", "[", "0", "]", ".", "ghost">>}

\* Some segment of the path, up to the n-th, names no truthy property.
AbsentWithin(segments, n, st) ==
    IF segments = <<>> THEN n > 0 /\ ~Truthy(Get(st, "undefined"))
    ELSE \E i \in 1..n : ~Truthy(Walk(st, SubSeq(segments, 1, i)))

C20_PathRoundTrip ==
    \A path \in RoundTripPaths, touchInvalid \in BOOLEAN :
        LET segments == Segments(path)
            target == IF segments = <<>> THEN <<"undefined">> ELSE segments
            read == getFieldState(path, state)
            touched == updateFieldTouched(path, state)
            written == ApplyErrors(state, <<[path |-> path, message |-> "probe"]>>,
                                   touchInvalid)
        IN /\ (read = Undefined) <=> AbsentWithin(segments, Len(target), state)
           /\ read # Undefined =>
                /\ read = Walk(state, target)
                /\ touched = Put(state, target, [read EXCEPT !.t = "T"])
                /\ getFieldState(path, touched) = [read EXCEPT !.t = "T"]
                /\ written = Put(state, target, getFieldState(path, written))
                /\ getFieldState(path, written).e = Append(read.e, "probe")
           /\ read = Undefined =>
                /\ touched = state
                /\ IF AbsentWithin(segments, Len(target) - 1, state)
                   THEN /\ written = state
                        /\ getFieldState(path, written) = Undefined
                   ELSE /\ written = Put(state, target, getFieldState(path, written))
                        /\ getFieldState(path, written).e = <<"probe">>

\* A list form after validateForm('all'): the bracketed and the dotted path
\* of the second entry's name find the same touched leaf in error, the path
\* through the missing address object finds nothing.
C20_Witness ==
    /\ lastOp = Op("validateForm", "all")
    /\ getFieldState(<<"users", "[", "1", "]", ".", "name">>, state).t = "T"
    /\ getFieldState(<<"users", "[", "1", "]", ".", "name">>, state).e # <<>>
    /\ getFieldState(<<"users", ".", "1", ".", "name">>, state)
          = getFieldState(<<"users", "[", "1", "]", ".", "name">>, state)
    /\ getFieldState(<<"address", ".", "city">>, state) = Undefined

----------------------------------------------------------------------------
(* The schema-directed builder on data with absent fields: a schema with a  *)
(* scalar, a form array and an object nested in an object, and every data   *)
(* tree that has or lacks each of them.  Here state holds what the builder  *)
(* returned: Throw when an exception left it.                               *)

\* geo: object().shape({ lat: string() })
GeoSchema == SNode("object", <<"lat">>, [key \in {"lat"} |-> StringSchema], FALSE)

\* home: object().shape({ city: string(), geo })
HomeSchema ==
    SNode("object", <<"city", "geo">>,
          [key \in {"city", "geo"} |->
              IF key = "geo" THEN GeoSchema ELSE StringSchema], FALSE)

\* { title, users, home }
DeepSchema ==
    SNode("object", <<"title", "users", "home">>,
          [key \in {"title", "users", "home"} |->
              CASE key = "users" -> UsersSchema(FALSE)
                [] key = "home" -> HomeSchema
                [] OTHER -> StringSchema], FALSE)

\* An object with the properties of kids whose keys are in present.
Only(kids, present) == Obj("ok", [key \in present |-> kids[key]])

\* The home objects: {}, { city }, { geo: {} }, { geo: { lat } }, ...
HomeData ==
    {Only([key \in {"city", "geo"} |-> IF key = "geo" THEN geo ELSE Prim("ok")], present) :
        present \in SUBSET {"city", "geo"},
        geo \in {Obj("ok", <<>>), Obj("ok", [key \in {"lat"} |-> Prim("ok")])}}

\* The users arrays: [], [{ name }], [{}]
UsersData == {Arr(<<>>), Arr(<<Entry("ok", "ok")>>), Arr(<<Obj("ok", <<>>)>>)}

\* Every data tree that has or lacks each field of DeepSchema.
DeepData ==
    {Only([key \in {"title", "users", "home"} |->
              CASE key = "users" -> users [] key = "home" -> home [] OTHER -> Prim("ok")],
          present) :
        present \in SUBSET {"title", "users", "home"},
        users \in UsersData, home \in HomeData}

InitBuild ==
    /\ schema = DeepSchema
    /\ values \in DeepData
    /\ state = EmptyObject
    /\ isValid = FALSE
    /\ isTouched = FALSE
    /\ lastOp = Op("writable", "")
    /\ config = DefaultConfig
    /\ queue = <<>>
    /\ control = NoControl

\* createState(get(values), state, validationSchema), as resetForm calls it.
CreateState ==
    /\ state' = createState(values, schema)
    /\ lastOp' = Op("createState", "")
    /\ UNCHANGED <<schema, values, isValid, isTouched, config, control, queue>>

\* updateState(values, validationSchema, state), on metadata built before.
UpdateState ==
    /\ ~Throws(state)
    /\ state' = updateState(values, schema, state)
    /\ lastOp' = Op("updateState", "")
    /\ UNCHANGED <<schema, values, isValid, isTouched, config, control, queue>>

\* The data is replaced (no subscriber: the builder alone is exercised).
SetData ==
    \E data \in DeepData :
        /\ values' = data
        /\ lastOp' = Op("set", "")
        /\ UNCHANGED <<schema, state, isValid, isTouched, config, control, queue>>

NextBuild ==
    \/ CreateState
    \/ UpdateState
    \/ SetData

SpecBuild == InitBuild /\ [][NextBuild]_vars

----------------------------------------------------------------------------
(* C21.  With a schema, the build walks the schema's fields: for every data *)
(* tree in which a schema field is absent (a scalar, an array, a nested     *)
(* object, an object nested inside another absent object) the build ends    *)
(* without failure, and the metadata has a node for every schema field: a   *)
(* leaf for a scalar, a sequence for an array, a container for an object.   *)

C21_BuildCompletes ==
    lastOp.op \in {"createState", "updateState"} =>
        /\ ~Throws(state)
        /\ SchemaMirrors(state, values, schema)

\* The same where the data has the object that holds the nested object.
C21_BuildCompletesUnderPresentParent ==
    lastOp.op \in {"createState", "updateState"} /\ Truthy(Get(values, "home")) =>
        /\ ~Throws(state)
        /\ SchemaMirrors(state, values, schema)

\* The build fails exactly when the data lacks the object that holds the
\* nested object.
C21_BuildFailsUnderAbsentParent ==
    lastOp.op \in {"createState", "updateState"} =>
        (Throws(state) <=> ~Truthy(Get(values, "home")))

----------------------------------------------------------------------------
(* C22.  For a form created without a validation schema isValid is false   *)
(* in every reachable state: no sequence of value edits, validateForm with *)
(* any highlight, updateForm, handleChange, setTouched or resetForm sets   *)
(* it to true.                                                              *)

C22_NoSchemaNeverValid == schema.type = "none" => ~isValid

\* A form without schema after validateForm('all'): every leaf is touched,
\* none has an error, and isValid is false.
C22_Witness ==
    /\ schema.type = "none"
    /\ lastOp = Op("validateForm", "all")
    /\ LeafPaths(state) # {}
    /\ \A p \in LeafPaths(state) : Touched(Walk(state, p))
    /\ NoErrors(state)
    /\ ~isValid

----------------------------------------------------------------------------
(* C23.  handleChange sets isTouched to true on every call, also when the  *)
(* event target has no name and when the named path resolves to no metadata *)
(* node; through a bound control this happens on a change event only if     *)
(* validateOnChange is true and on a blur event only if validateOnBlur is.  *)

C23_HandleChangeTouches ==
    [][/\ lastOp'.op = "handleChange" => isTouched'
       /\ lastOp'.op = "change" =>
            isTouched' = (config.validateOnChange \/ isTouched)
       /\ lastOp'.op = "blur" =>
            isTouched' = (config.validateOnBlur \/ isTouched)]_vars

\* handleChange for a name no field has: isTouched is true and no leaf of
\* the metadata is touched.
C23_Witness ==
    /\ lastOp = Op("handleChange", "ghost.field")
    /\ isTouched
    /\ LeafPaths(state) # {}
    /\ \A p \in LeafPaths(state) : ~Touched(Walk(state, p))

\* A blur on a bound control of a form with validateOnBlur false: the form
\* is still untouched.
C23_BlurIgnored ==
    /\ lastOp.op = "blur"
    /\ control.mounted
    /\ ~config.validateOnBlur
    /\ ~isTouched

----------------------------------------------------------------------------
(* C24.  isTouched changes only through handleChange (to true), setTouched *)
(* (to its argument) and resetForm (to false): validateForm with any        *)
(* highlight, 'all' included, updateForm and writes to the values store     *)
(* leave it unchanged.                                                      *)

\* The operations that run handleChange: the call itself, and the bound
\* control's listeners.
ThroughHandleChange == {"handleChange", "change", "blur"}

C24_TouchedFrame ==
    [][/\ lastOp'.op \in {"validateForm", "updateForm", "write", "addUser",
                          "removeUser", "mount"} => isTouched' = isTouched
       /\ isTouched' # isTouched =>
            \/ lastOp'.op \in ThroughHandleChange /\ isTouched'
            \/ lastOp'.op = "setTouched"
            \/ lastOp'.op = "resetForm" /\ ~isTouched'
       /\ lastOp'.op = "setTouched" => isTouched' = (lastOp'.arg = "true")
       /\ lastOp'.op = "resetForm" => ~isTouched']_vars

\* validateForm('all') on a form nobody touched: every leaf is touched, the
\* form is not.
C24_Witness ==
    /\ lastOp = Op("validateForm", "all")
    /\ ~isTouched
    /\ LeafPaths(state) # {}
    /\ \A p \in LeafPaths(state) : Touched(Walk(state, p))
    /\ schema.type # "none"

----------------------------------------------------------------------------
(* The chain of calls of one operation.  An operation of the form is a     *)
(* list of calls (store writes and helper calls); a store write calls the  *)
(* store's subscribers before the operation goes on, and what a subscriber *)
(* calls is made before the subscriber returns.  queue holds the calls     *)
(* still to be made, the next one first; the form is at rest when it is    *)
(* empty.  JavaScript runs an operation to its end before the next begins. *)

\* One call: by tells whether the operation itself makes it or a store's
\* subscriber (or something a subscriber called) does.
Call(step, by, data, name, arg) == <<step, by, data, name, arg>>

StepOf(call) == call[1]

ByOf(call) == call[2]

DataOf(call) == call[3]

NameOf(call) == call[4]

ArgOf(call) == call[5]

Do(step, by) == Call(step, by, Undefined, <<>>, "")

\* A values subscriber that writes the value it is given back to the store.
OnValuesNotifiedWriteBack(validationSchema, data) ==
    <<Call("values.set", "subscriber", data, <<>>, "")>>

\* The values store's subscriber (L493-495), called with the store's value,
\* which it does not read: validationSchema && validateForm().
OnValuesNotified(validationSchema, data) ==
    IF validationSchema.type # "none"
    THEN <<Call("validateForm", "subscriber", Undefined, <<>>, "none")>>
    ELSE <<>>

\* handleChange(event): target.name && updateFieldTouched(...), then
\* isTouched.set(true).
handleChangeCalls(name, by) ==
    (IF name # <<>> THEN <<Call("updateFieldTouched", by, Undefined, name, "")>>
     ELSE <<>>)
    \o <<Call("isTouched.set", by, Undefined, <<>>, "true")>>

\* changeListener and blurListener (L508-519).
ListenerCalls(enabled) ==
    IF enabled
    THEN handleChangeCalls(control.name, "operation")
         \o (IF config.enabled THEN <<Do("checkValidity", "operation")>> ELSE <<>>)
    ELSE <<>>

\* resetForm(newValue?) (L482-491)
resetFormCalls(newValue) ==
    (IF Truthy(newValue)
     THEN <<Call("values.set", "operation", newValue, <<>>, "")>> ELSE <<>>)
    \o <<Do("state.set({})", "operation"),
         Call("isValid.set", "operation", Undefined, <<>>, "false"),
         Call("isTouched.set", "operation", Undefined, <<>>, "false"),
         Do("createState", "operation"),
         Do("validationReset.update", "operation")>>

\* The calls that are a store's subscriber being run.
SubscriberSteps ==
    {"values.subscriber", "state.subscriber", "cssValidator.subscriber",
     "validationReset.subscriber"}

\* Who makes the calls that call makes.
Under(call) ==
    IF ByOf(call) = "subscriber" \/ StepOf(call) \in SubscriberSteps
    THEN "subscriber" ELSE "operation"

\* The settings the chains are checked with: those that decide which calls
\* are made (a listener that is switched off is seen with validateOnChange).
NotifyConfigs ==
    {settings \in Configs :
        settings.useValid /\ settings.useInvalid /\ settings.validateOnBlur}

\* A form with formControl applied to the city input.
InitNotify ==
    \E validationSchema \in {NestedSchema, NoSchema} :
      \E initialValues \in NestedValues(validationSchema) :
        \E settings \in NotifyConfigs :
          LET created == createState(CreateFormStateSource(initialValues), validationSchema)
          IN /\ schema = validationSchema
             /\ values = initialValues
             /\ ~Throws(created)
             /\ state = IF validationSchema.type # "none"
                        THEN ValidateState(initialValues, validationSchema, created, FALSE, FALSE)
                        ELSE created
             /\ isValid = ValidateResult(initialValues, validationSchema)
             /\ isTouched = FALSE
             /\ lastOp = Op("createForm", "")
             /\ config = settings
             /\ control = [mounted |-> TRUE, name |-> <<"address", ".", "city">>,
                           classes |-> {}]
             /\ queue = <<>>

\* An operation begins, when none is running: its calls are queued.
Begin(op, calls) ==
    /\ queue = <<>>
    /\ queue' = calls
    /\ lastOp' = op
    /\ UNCHANGED <<schema, values, state, isValid, isTouched, config, control>>

BeginWrite ==
    \E data \in Edits(values, schema) :
        Begin(Op("write", ""), <<Call("values.set", "operation", data, <<>>, "")>>)

BeginValidateForm ==
    \E highlight \in Highlights :
        Begin(Op("validateForm", highlight),
              <<Call("validateForm", "operation", Undefined, <<>>, highlight)>>)

BeginUpdateForm ==
    Begin(Op("updateForm", ""),
          <<Do("updateState", "operation"),
            Call("validateForm", "operation", Undefined, <<>>, "none")>>)

BeginResetForm ==
    \E newValue \in ResetValues(values) \cup {Undefined} :
        Begin(Op("resetForm", IF Truthy(newValue) THEN "newValue" ELSE ""),
              resetFormCalls(newValue))

BeginHandleChange ==
    \E name \in MountNames :
        Begin(Op("handleChange", PathString(name)), handleChangeCalls(name, "operation"))

BeginChange == Begin(Op("change", ""), ListenerCalls(config.validateOnChange))

BeginBlur == Begin(Op("blur", ""), ListenerCalls(config.validateOnBlur))

\* The next call is step; it is made, and the calls it makes come before
\* the rest.
Made(step, calls) ==
    /\ queue # <<>>
    /\ StepOf(Head(queue)) = step
    /\ queue' = calls \o Tail(queue)
    /\ UNCHANGED <<schema, lastOp, config>>

\* values.set(data): the store's subscriber is called.
ValuesSet ==
    /\ Made("values.set", <<Do("values.subscriber", Under(Head(queue)))>>)
    /\ values' = DataOf(Head(queue))
    /\ UNCHANGED <<state, isValid, isTouched, control>>

ValuesSubscriber ==
    /\ Made("values.subscriber", OnValuesNotified(schema, values))
    /\ UNCHANGED <<values, state, isValid, isTouched, control>>

\* validateForm(highlight) (L477-480): validate's state.set (with a schema),
\* isValid.set (no subscriber), and the update of cssValidator.
ValidateFormCall ==
    LET highlight == ArgOf(Head(queue))
        after == validateForm(values, state, highlight)
        by == Under(Head(queue))
    IN /\ Made("validateForm",
               (IF schema.type # "none" THEN <<Do("state.subscriber", by)>> ELSE <<>>)
               \o (IF config.enabled /\ ~config.validateOnChange /\ highlight # "none"
                   THEN <<Do("cssValidator.subscriber", by)>> ELSE <<>>))
       /\ state' = after.state
       /\ isValid' = after.isValid
       /\ UNCHANGED <<values, isTouched, control>>

\* updateState and createState: state.set of the tree built.  An exception
\* of the builder leaves the operation, whose remaining calls are not made.
BuildCall ==
    \E step \in {"updateState", "createState"} :
        LET built == IF step = "updateState" THEN updateState(values, schema, state)
                     ELSE createState(ResetFormStateSource(values), schema)
        IN /\ queue # <<>>
           /\ StepOf(Head(queue)) = step
           /\ IF Throws(built)
              THEN \* the exception ends the operation
                   queue' = <<>> /\ state' = state
              ELSE /\ queue' = <<Do("state.subscriber", Under(Head(queue)))>> \o Tail(queue)
                   /\ state' = built
           /\ UNCHANGED <<schema, lastOp, config, values, isValid, isTouched, control>>

\* state.set({})
StateCleared ==
    /\ Made("state.set({})", <<Do("state.subscriber", Under(Head(queue)))>>)
    /\ state' = EmptyObject
    /\ UNCHANGED <<values, isValid, isTouched, control>>

\* updateFieldTouched(name, state): the flag, then state.set.
FieldTouched ==
    /\ Made("updateFieldTouched", <<Do("state.subscriber", Under(Head(queue)))>>)
    /\ state' = updateFieldTouched(NameOf(Head(queue)), state)
    /\ UNCHANGED <<values, isValid, isTouched, control>>

\* isValid.set and isTouched.set: these stores have no subscriber here.
FlagSet ==
    \E step \in {"isValid.set", "isTouched.set"} :
        /\ Made(step, <<>>)
        /\ isValid' = IF step = "isValid.set" THEN ArgOf(Head(queue)) = "true" ELSE isValid
        /\ isTouched' = IF step = "isTouched.set" THEN ArgOf(Head(queue)) = "true" ELSE isTouched
        /\ UNCHANGED <<values, state, control>>

ValidationResetUpdate ==
    /\ Made("validationReset.update",
            <<Do("validationReset.subscriber", Under(Head(queue)))>>)
    /\ UNCHANGED <<values, state, isValid, isTouched, control>>

\* The control's subscribers and the listeners' checkValidity: they change
\* the node's classes, and call nothing.
Presented ==
    \E step \in {"state.subscriber", "cssValidator.subscriber",
                  "validationReset.subscriber", "checkValidity"} :
        /\ Made(step, <<>>)
        /\ control' =
             CASE step = "state.subscriber" -> OnState(control, state, config)
               [] step = "cssValidator.subscriber" -> OnCssValidator(control, state, config)
               [] step = "validationReset.subscriber" -> OnValidationReset(control)
               [] OTHER -> [control EXCEPT !.classes =
                               checkValidity(control.name, @, state, config)]
        /\ UNCHANGED <<values, state, isValid, isTouched>>

\* The running operation makes its next call.
Run ==
    \/ ValuesSet
    \/ ValuesSubscriber
    \/ ValidateFormCall
    \/ BuildCall
    \/ StateCleared
    \/ FieldTouched
    \/ FlagSet
    \/ ValidationResetUpdate
    \/ Presented

NextNotify ==
    \/ BeginWrite
    \/ BeginValidateForm
    \/ BeginUpdateForm
    \/ BeginResetForm
    \/ BeginHandleChange
    \/ BeginChange
    \/ BeginBlur
    \/ Run

\* A running operation goes on: nothing else runs until it has ended.
SpecNotify == InitNotify /\ [][NextNotify]_vars /\ WF_vars(Run)

----------------------------------------------------------------------------
(* C25.  Every operation (a write to values, validateForm, updateForm,     *)
(* resetForm, handleChange, a change or blur event on a bound control)      *)
(* triggers a finite chain of store notifications and then is at rest: the  *)
(* subscribers' callbacks never write to the values store, so there is no   *)
(* reactive feedback loop.                                                  *)

\* The most calls a call can stand for: itself and the calls it makes, and
\* those they make.  A presentation call and a flag's set make none; a
\* state.set calls the state subscriber; validateForm calls at most the
\* state and the cssValidator subscriber; the values subscriber calls
\* validateForm; values.set calls the values subscriber.
Weight(call) ==
    CASE StepOf(call) = "values.set" -> 5
      [] StepOf(call) = "values.subscriber" -> 4
      [] StepOf(call) = "validateForm" -> 3
      [] StepOf(call) \in {"updateState", "createState", "state.set({})",
                        "updateFieldTouched", "validationReset.update"} -> 2
      [] OTHER -> 1

RECURSIVE TotalWeight(_)
TotalWeight(calls) ==
    IF calls = <<>> THEN 0 ELSE Weight(Head(calls)) + TotalWeight(Tail(calls))

\* The longest chain of calls of one operation: resetForm(newValue).
MaxChain == 13

\* Every call of a running operation leaves fewer calls to make, an
\* operation is never more than MaxChain calls from rest, a running
\* operation can always make its next call, and no call made by a
\* subscriber, directly or through what it calls, writes the values store.
C25_Quiesces ==
    /\ [](TotalWeight(queue) <= MaxChain)
    /\ [](queue # <<>> => ENABLED Run)
    /\ [][queue # <<>> =>
            /\ TotalWeight(queue') < TotalWeight(queue)
            /\ ByOf(Head(queue)) = "subscriber" =>
                  StepOf(Head(queue)) # "values.set" /\ values' = values]_vars

\* The same as a liveness property of SpecNotify, where a running operation
\* goes on (WF_vars(Run)): an operation that runs comes to rest.
C25_ComesToRest == (queue # <<>>) ~> (queue = <<>>)

\* A write that made the form invalid, at rest: the subscriber's pass has
\* run and the control, touched before, shows the error.
C25_Witness ==
    /\ queue = <<>>
    /\ lastOp.op = "write"
    /\ ~isValid
    /\ getFieldState(control.name, state).e # <<>>
    /\ control.classes = {invalidClass}

====
